---------------------------- MODULE Spec2Model ----------------------------
(***************************************************************************)
(* A model of github.com/AndrewBurian/eventsource: the per-connection      *)
(* Client (client.go: a capacity-1 channel drained by one worker           *)
(* goroutine) and the Stream registry (stream.go, lines 1-230: a map from  *)
(* client to topic list under a sync.RWMutex).                             *)
(*                                                                         *)
(* Goroutines that call the API are the members of Procs; every client     *)
(* has one worker goroutine (Client.run).  One action is one atomic step   *)
(* of one goroutine.  Reads and writes of the unsynchronised field         *)
(* Client.closed are single steps, so every interleaving of the racing     *)
(* accesses is a behaviour of the model.  A panic unwinds the calling      *)
(* goroutine, running its deferred unlock, and leaves it in "panicked".    *)
(***************************************************************************)
EXTENDS Naturals, Sequences, FiniteSets, TLC

\* ------------------------------------------------------------- bounds
\* clients constructed by NewClient
NClients == 2
\* API calls and peer disconnects in one behaviour of SpecStream
MaxCalls == 3
\* the same, in one behaviour of SpecClient
ClientCalls == 4
\* the same, in one behaviour of SpecStall
StallCalls == 4
\* Write calls io.Copy needs for one event
Chunks == 2
\* API calls and peer disconnects in one behaviour of SpecRemove
RemoveCalls == 3
\* calls on Event objects in one behaviour of SpecEvent
EventCalls == 4
\* calls in a behaviour of SpecClone
CloneCalls == 5
\* Broadcasts and peer disconnects in one behaviour of SpecHandler
HandlerCalls == 3
\* calls in one behaviour of SpecRaw
RawCalls == 4
\* API calls and peer disconnects in one behaviour of SpecShutdown
ShutdownCalls == 4

\* ------------------------------------------------- program constants
\* make(chan *Event, 1)
ChanCap == 1

Clients == 1..NClients
\* two topic names
Topics == {"x", "y"}
\* two goroutines that call the API
Procs == {"p", "q"}
NoProc == "none"
NoClient == NClients - NClients
NoTopic == "none"
\* the Event objects of the callers: an event and a clone
Objs == {"e", "k"}
\* no call has returned yet
NoRet == [op |-> "none", arg |-> <<>>, n |-> 0, bytes |-> <<>>, eof |-> FALSE]

VARIABLES
    clients,     \* Stream.clients: map[*Client]topicList
    wmutex,      \* Stream.listLock: the goroutine inside Lock()..Unlock(), or NoProc
    lockR,       \* Stream.listLock: the goroutines holding RLock
    events,      \* Client.events: the channel's buffer, per client
    chanClosed,  \* Client.events: close() was called on the channel
    closed,      \* Client.closed
    waiter,      \* Client.waiter: the WaitGroup counter
    wpc,         \* Client.run: the worker's position
    wev,         \* Client.run: the event the worker holds (ev), chunks left
    exitPath,    \* Client.run: which branch returned
    wire,        \* what the connection has seen: writes and flushes, in order
    gone,        \* the CloseNotify channel has fired
    stalled,     \* the connection's Write call blocks
    nEnq,        \* number of completed enqueues per client (orders them)
    calls,       \* number of API calls and disconnects the behaviour may still make
    pc,          \* per calling goroutine: its position
    fr,          \* per calling goroutine: the frame of its current or last call
    obj,         \* the callers' Event objects
    arrays,      \* the heap: the backing arrays of the events' data slices
    ret,         \* per Event object: what the last call on it returned
    got,         \* per Event object: the bytes Read returned since it was last changed
    pure,        \* per Event object: only Read was called since it was last changed
    who,         \* the Event object the last call was made on
    hpc          \* per client: the position of the HTTP handler that serves it

vars == <<clients, wmutex, lockR, events, chanClosed, closed, waiter, wpc, wev,
          exitPath, wire, gone, stalled, nEnq, calls, pc, fr,
          obj, arrays, ret, got, pure, who, hpc>>

stream == <<clients, wmutex, lockR>>
chans == <<events, chanClosed, nEnq>>
workers == <<closed, waiter, wpc, wev, exitPath, wire>>
env == <<gone, stalled>>
objs == <<obj, arrays, ret, got, pure, who>>

\* -------------------------------------------------------------- Event
\* A string is a sequence of characters.  An []string is a slice: the
\* backing array it points into (0: none, the nil slice) and its length;
\* the arrays live in a heap h, each as long as its capacity.
NL == "\n"
NilSlice == [arr |-> 0, len |-> 0]

\* cap(s)
Cap(h, s) == IF s.arr = 0 THEN 0 ELSE Len(h[s.arr])

\* the elements s[0:len(s)]
Elems(h, s) == [i \in 1..s.len |-> h[s.arr][i]]

\* the capacity append gives a slice of capacity old that must hold need
\* elements (runtime growslice, small slices of strings)
GrowCap(old, need) == IF need > 2 * old THEN need ELSE 2 * old

\* append(s, xs...): in place when the capacity allows, else into a new
\* array that holds a copy
AppendMany(h, s, xs) ==
    IF xs = <<>> THEN [h |-> h, s |-> s]
    ELSE IF s.len + Len(xs) <= Cap(h, s)
    THEN [h |-> [h EXCEPT ![s.arr] =
                    [i \in 1..Len(@) |->
                        IF i > s.len /\ i <= s.len + Len(xs)
                        THEN xs[i - s.len] ELSE @[i]]],
          s |-> [s EXCEPT !.len = @ + Len(xs)]]
    ELSE [h |-> Append(h,
                    [i \in 1..GrowCap(Cap(h, s), s.len + Len(xs)) |->
                        IF i <= s.len THEN h[s.arr][i]
                        ELSE IF i <= s.len + Len(xs) THEN xs[i - s.len]
                        ELSE <<>>]),
          s |-> [arr |-> Len(h) + 1, len |-> s.len + Len(xs)]]

\* the zero value of Event
ZeroEvent == [id |-> <<>>, data |-> NilSlice, event |-> <<>>, retry |-> 0,
              buf |-> <<>>, bufSet |-> FALSE]

\* a faulty setter: the buffer is still taken for filled
IDKeepsBuf(e, id) == [e EXCEPT !.id = id]

\* e.ID(id)
ID(e, id) == [e EXCEPT !.id = id, !.bufSet = FALSE]

\* e.Type(t)
Type(e, t) == [e EXCEPT !.event = t, !.bufSet = FALSE]

\* e.Retry(t)
Retry(e, t) == [e EXCEPT !.retry = t, !.bufSet = FALSE]

RECURSIVE SplitFrom(_, _)
\* strings.Split(p, "\n"), cur being the segment begun before p
SplitFrom(p, cur) ==
    IF p = <<>> THEN <<cur>>
    ELSE IF Head(p) = NL THEN <<cur>> \o SplitFrom(Tail(p), <<>>)
    ELSE SplitFrom(Tail(p), Append(cur, Head(p)))

\* strings.Split(p, "\n")
Split(p) == SplitFrom(p, <<>>)

\* a faulty loop body: the empty entries are written too
WantsEntryAll(entry) == TRUE

\* if len(entry) == 0 { continue }
WantsEntry(entry) == Len(entry) # 0

RECURSIVE AppendEntries(_, _, _)
\* for _, entry := range split: e.data = append(e.data, entry)
AppendEntries(h, s, split) ==
    IF split = <<>> THEN [h |-> h, s |-> s]
    ELSE IF WantsEntry(Head(split))
    THEN LET r == AppendMany(h, s, <<Head(split)>>)
         IN  AppendEntries(r.h, r.s, Tail(split))
    ELSE AppendEntries(h, s, Tail(split))

\* e.WriteString(p): the heap and the event after it
WriteString(h, e, p) ==
    LET r == AppendEntries(h, e.data, Split(p))
    IN  [h |-> r.h, e |-> [e EXCEPT !.data = r.s, !.bufSet = FALSE]]

\* e.Write(p)
Write(h, e, p) == WriteString(h, e, p)

\* e.AppendData(dat)
AppendData(h, e, dat) == WriteString(h, e, dat)

\* e.Data(dat): e.data = e.data[:0], then WriteString
Data(h, e, dat) == WriteString(h, [e EXCEPT !.data.len = 0], dat)

\* the decimal digits
Digit == <<"0", "1", "2", "3", "4", "5", "6", "7", "8", "9">>

RECURSIVE FormatUint(_)
\* strconv.FormatUint(n, 10)
FormatUint(n) ==
    IF n < 10 THEN <<Digit[n + 1]>>
    ELSE Append(FormatUint(n \div 10), Digit[(n % 10) + 1])

\* buf.WriteString(field); buf.WriteString(value); buf.WriteByte('\n')
WriteLine(buf, field, value) == buf \o field \o value \o <<NL>>

RECURSIVE WriteData(_, _)
\* for _, entry := range e.data: the "data: " lines
WriteData(buf, entries) ==
    IF entries = <<>> THEN buf
    ELSE WriteData(WriteLine(buf, <<"d", "a", "t", "a", ":", " ">>, Head(entries)),
                   Tail(entries))

\* a faulty prepare: the id line comes before the event line
WireIdFirst(h, e) ==
    LET b1 == IF Len(e.id) > 0
              THEN WriteLine(<<>>, <<"i", "d", ":", " ">>, e.id) ELSE <<>>
        b2 == IF Len(e.event) > 0
              THEN WriteLine(b1, <<"e", "v", "e", "n", "t", ":", " ">>, e.event)
              ELSE b1
        b3 == WriteData(b2, Elems(h, e.data))
        b4 == IF e.retry > 0
              THEN WriteLine(b3, <<"r", "e", "t", "r", "y", ":", " ">>,
                             FormatUint(e.retry))
              ELSE b3
    IN  Append(b4, NL)

\* what prepare writes into the reset buffer
Wire(h, e) ==
    LET b1 == IF Len(e.event) > 0
              THEN WriteLine(<<>>, <<"e", "v", "e", "n", "t", ":", " ">>, e.event)
              ELSE <<>>
        b2 == IF Len(e.id) > 0
              THEN WriteLine(b1, <<"i", "d", ":", " ">>, e.id) ELSE b1
        b3 == WriteData(b2, Elems(h, e.data))
        b4 == IF e.retry > 0
              THEN WriteLine(b3, <<"r", "e", "t", "r", "y", ":", " ">>,
                             FormatUint(e.retry))
              ELSE b3
    IN  Append(b4, NL)

\* e.prepare()
Prepare(h, e) == [e EXCEPT !.buf = Wire(h, e), !.bufSet = TRUE]

\* the first n elements of a sequence, all of it when it is shorter
Take(q, n) == SubSeq(q, 1, IF n < Len(q) THEN n ELSE Len(q))

\* what is left after the first n
Drop(q, n) == SubSeq(q, (IF n < Len(q) THEN n ELSE Len(q)) + 1, Len(q))

\* buf.Read(p) with len(p) = n: the bytes read, the error, the buffer left
BufRead(buf, n) ==
    [bytes |-> Take(buf, n), eof |-> (buf = <<>> /\ n > 0), buf |-> Drop(buf, n)]

\* a faulty Read: the buffer is filled at every call
WantsPrepareAlways(e) == TRUE

\* Read fills the buffer unless e.bufSet
WantsPrepare(e) == ~e.bufSet

\* e.Read(p) with len(p) = n: the event after it, the bytes read, the error
Read(h, e, n) ==
    LET e1 == IF WantsPrepare(e) THEN Prepare(h, e) ELSE e
        r == BufRead(e1.buf, n)
    IN  [e |-> [e1 EXCEPT !.buf = r.buf], bytes |-> r.bytes, eof |-> r.eof]

\* e.String(): the event after it and the string returned
String(h, e) ==
    LET e1 == Prepare(h, e) IN [e |-> e1, bytes |-> e1.buf, eof |-> FALSE]

\* e.WriteRaw(p)
WriteRaw(e, p) == [e EXCEPT !.bufSet = TRUE, !.buf = @ \o p]

\* a faulty Clone: the clone's data is the original's slice
CloneShared(h, e) ==
    [h |-> h,
     e |-> [ZeroEvent EXCEPT !.id = e.id, !.event = e.event,
                             !.retry = e.retry, !.data = e.data]]

\* e.Clone(): the heap and the clone after it;
\* clone.data = append(clone.data, e.data...) on the nil slice
Clone(h, e) ==
    LET r == AppendMany(h, NilSlice, Elems(h, e.data))
    IN  [h |-> r.h,
         e |-> [ZeroEvent EXCEPT !.id = e.id, !.event = e.event,
                                 !.retry = e.retry, !.data = r.s]]

\* what io.Copy gets from e: the bytes of its Reads up to end-of-stream
ReadAll(h, e) == IF WantsPrepare(e) THEN Wire(h, e) ELSE e.buf

\* the event every Send, Broadcast and Publish is called with
Arg == "e"

\* a queued event: the clone (ev), its tag in the order of the enqueues
\* (seq), the Write calls made for it (done), and the rendering of the
\* caller's event when it was sent (want), and what reading the caller's
\* event to its end would have returned then (read)
NoEvent == [seq |-> 0, done |-> 0, ev |-> ZeroEvent, want |-> <<>>,
            read |-> <<>>]

\* ------------------------------------------------------------ helpers

\* topics[topic] on a map[string]bool: false for a missing key
Lookup(topics, t) == t \in DOMAIN topics /\ topics[t]

\* make(topicList)
EmptyTopics == [t \in {} |-> FALSE]

\* m[k] = v on a map
MapPut(m, k, v) == [x \in DOMAIN m \cup {k} |-> IF x = k THEN v ELSE m[x]]

\* delete(m, k)
MapDelete(m, k) == [x \in DOMAIN m \ {k} |-> m[x]]

\* len(s.clients)
NumClients == Cardinality(DOMAIN clients)

\* a goroutine's call frame: the call (op) and its arguments (c, t), the
\* clients in the registry when the call took the lock (snap), those the
\* range loop has still to visit (todo), the client of the
\* Send in progress (c), and what the call has done so far: the clients Send
\* was called on (sent), those whose enqueue completed (enq), and whether
\* the worker had already exited when the Send in progress began (late)
IdleFrame == [op |-> "none", c |-> NoClient, t |-> NoTopic,
              snap |-> {}, todo |-> {}, sent |-> {}, enq |-> {},
              late |-> FALSE]

\* goroutine p may begin a call
Free(p) == pc[p] = "idle" /\ calls > 0

\* a call begins
Called == calls' = calls - 1

\* NewStream(), and NewClient for every client: an empty registry; every
\* client open, its queue empty, its worker started (c.waiter.Add(1);
\* go c.run()).  n bounds the calls of the behaviour.
InitWith(n) ==
    /\ clients = [c \in {} |-> EmptyTopics]
    /\ wmutex = NoProc
    /\ lockR = {}
    /\ events = [c \in Clients |-> <<>>]
    /\ chanClosed = [c \in Clients |-> FALSE]
    /\ closed = [c \in Clients |-> FALSE]
    /\ waiter = [c \in Clients |-> 1]
    /\ wpc = [c \in Clients |-> "select"]
    /\ wev = [c \in Clients |-> NoEvent]
    /\ exitPath = [c \in Clients |-> "none"]
    /\ wire = [c \in Clients |-> <<>>]
    /\ gone = [c \in Clients |-> FALSE]
    /\ stalled = [c \in Clients |-> FALSE]
    /\ nEnq = [c \in Clients |-> 0]
    /\ calls = n
    /\ pc = [p \in Procs |-> "idle"]
    /\ fr = [p \in Procs |-> IdleFrame]
    /\ obj = [x \in Objs |-> ZeroEvent]
    /\ arrays = <<>>
    /\ ret = [x \in Objs |-> NoRet]
    /\ got = [x \in Objs |-> <<>>]
    /\ pure = [x \in Objs |-> TRUE]
    /\ who = "none"
    /\ hpc = [c \in Clients |-> "start"]


\* ------------------------------------------------------- sync.RWMutex
\* Lock(): the writer takes the writers' mutex and announces itself, which
\* keeps new readers out; it then waits until the active readers are gone.
CanAnnounce == wmutex = NoProc

\* RLock(): blocks while a writer holds the lock or is waiting for it
CanRLock == wmutex = NoProc

\* a faulty lock: the announced writer does not wait for the readers
CanWriteAtOnce(p) == wmutex = p

\* the announced writer proceeds once no reader holds the lock
CanWrite(p) == wmutex = p /\ lockR = {}

\* the deferred s.listLock.RUnlock() of a frame that returns or unwinds
ReleaseR(p) == lockR \ {p}

\* the deferred s.listLock.Unlock() of a frame that returns or unwinds
ReleaseW(p) == IF wmutex = p THEN NoProc ELSE wmutex

\* a call returns: the goroutine is free for its next call
Return(p) ==
    /\ pc' = [pc EXCEPT ![p] = "idle"]
    /\ fr' = [fr EXCEPT ![p] = IdleFrame]

\* ------------------------------------------- Stream: registry writers
\* a call of Register, Remove, Subscribe or Unsubscribe enters
\* s.listLock.Lock()
CallWriter(p, op, t, c) ==
    /\ Free(p)
    /\ CanAnnounce
    /\ fr' = [fr EXCEPT ![p] = [IdleFrame EXCEPT !.op = op, !.c = c, !.t = t]]
    /\ wmutex' = p
    /\ pc' = [pc EXCEPT ![p] = "Lock"]
    /\ Called
    /\ UNCHANGED <<clients, lockR, chans, workers, env, objs, hpc>>

CallRegister(p, c) == CallWriter(p, "Register", NoTopic, c)

CallRemove(p, c) == CallWriter(p, "Remove", NoTopic, c)

CallSubscribe(p, t, c) == CallWriter(p, "Subscribe", t, c)

CallUnsubscribe(p, t, c) == CallWriter(p, "Unsubscribe", t, c)

\* the registry after Register(c)
RegisterMap(m, c) == IF c \in DOMAIN m THEN m ELSE MapPut(m, c, EmptyTopics)

\* the registry after Subscribe(topic, c)
SubscribeMap(m, t, c) ==
    IF c \in DOMAIN m THEN MapPut(m, c, MapPut(m[c], t, TRUE))
    ELSE MapPut(m, c, MapPut(EmptyTopics, t, TRUE))

\* a faulty Unsubscribe: the client is dropped from the registry
UnsubscribeMapDrop(m, t, c) == MapDelete(m, c)

\* the registry after Unsubscribe(topic, c)
UnsubscribeMap(m, t, c) ==
    IF c \in DOMAIN m THEN MapPut(m, c, MapPut(m[c], t, FALSE)) ELSE m

\* a faulty Remove: the registry is emptied
RemoveMapAll(m, c) == [x \in {} |-> EmptyTopics]

\* the registry after Remove(c)
RemoveMap(m, c) == MapDelete(m, c)

\* the body of a short writer, from Lock() acquired to the deferred Unlock()
WriterDone(p, m) ==
    /\ clients' = m
    /\ wmutex' = ReleaseW(p)
    /\ Return(p)
    /\ UNCHANGED <<lockR, chans, workers, env, objs, hpc, calls>>

Register(p) ==
    /\ pc[p] = "Lock" /\ fr[p].op = "Register" /\ CanWrite(p)
    /\ WriterDone(p, RegisterMap(clients, fr[p].c))

Remove(p) ==
    /\ pc[p] = "Lock" /\ fr[p].op = "Remove" /\ CanWrite(p)
    /\ WriterDone(p, RemoveMap(clients, fr[p].c))

Subscribe(p) ==
    /\ pc[p] = "Lock" /\ fr[p].op = "Subscribe" /\ CanWrite(p)
    /\ WriterDone(p, SubscribeMap(clients, fr[p].t, fr[p].c))

Unsubscribe(p) ==
    /\ pc[p] = "Lock" /\ fr[p].op = "Unsubscribe" /\ CanWrite(p)
    /\ WriterDone(p, UnsubscribeMap(clients, fr[p].t, fr[p].c))

\* ------------------------------------------------------- Client.Send
\* the call cli.Send(e) on client c: the frame's Send begins
EnterSend(f, c) ==
    [f EXCEPT !.c = c, !.sent = @ \cup {c}, !.todo = @ \ {c},
              !.late = (wpc[c] = "exited")]

\* a finished Send inside Broadcast or Publish goes back to the range
\* loop; a direct Send returns to its caller
LeaveSend(p, f) ==
    IF f.op \in {"Broadcast", "Publish"}
    THEN /\ pc' = [pc EXCEPT ![p] = "Range"]
         /\ fr' = [fr EXCEPT ![p] = f]
    ELSE Return(p)

\* a direct call of c.Send(ev)
CallSend(p, c) ==
    /\ Free(p)
    /\ fr' = [fr EXCEPT ![p] = EnterSend([IdleFrame EXCEPT !.op = "Send"], c)]
    /\ Called
    /\ pc' = [pc EXCEPT ![p] = "SendCheck"]
    /\ UNCHANGED <<stream, chans, workers, env, objs, hpc>>

\* a faulty Send: the test of c.closed is left out
SendCheckSkip(p) ==
    /\ pc[p] = "SendCheck"
    /\ pc' = [pc EXCEPT ![p] = "SendEnq"]
    /\ UNCHANGED <<stream, chans, workers, env, objs, hpc, calls, fr>>

\* if c.closed {
SendCheck(p) ==
    /\ pc[p] = "SendCheck"
    /\ pc' = [pc EXCEPT ![p] = IF closed[fr[p].c] THEN "SendErr" ELSE "SendEnq"]
    /\ UNCHANGED <<stream, chans, workers, env, objs, hpc, calls, fr>>

\* return io.ErrClosedPipe
SendReturnErr(p) ==
    /\ pc[p] = "SendErr"
    /\ LeaveSend(p, fr[p])
    /\ UNCHANGED <<stream, chans, workers, env, objs, hpc, calls>>

\* ch <- v on a buffered channel: the buffer with v appended
ChanPut(q, v) == Append(q, v)

\* a faulty Send: the clone shares the data of the caller's event
EnqueuedShared(h, e) == CloneShared(h, e)

\* the operand ev.Clone() of the channel send: the heap and the clone
Enqueued(h, e) == Clone(h, e)

\* c.events <- ev.Clone(), the channel open and its buffer not full;
\* return nil
SendEnqueue(p) ==
    LET c == fr[p].c
        r == Enqueued(arrays, obj[Arg])
    IN
    /\ pc[p] = "SendEnq"
    /\ ~chanClosed[c]
    /\ Len(events[c]) < ChanCap
    /\ events' = [events EXCEPT ![c] =
                     ChanPut(@, [seq |-> nEnq[c] + 1, done |-> 0, ev |-> r.e,
                                 want |-> Wire(arrays, obj[Arg]),
                                 read |-> ReadAll(arrays, obj[Arg])])]
    /\ arrays' = r.h
    /\ nEnq' = [nEnq EXCEPT ![c] = @ + 1]
    /\ LeaveSend(p, [fr[p] EXCEPT !.enq = @ \cup {c}])
    /\ UNCHANGED <<stream, chanClosed, workers, env, obj, ret, got, pure, who,
                   hpc, calls>>

\* c.events <- ev.Clone() on a closed channel panics ("send on closed
\* channel"), also when the sender was already blocked on it; the panic
\* unwinds Broadcast/Publish through the deferred RUnlock
SendPanic(p) ==
    /\ pc[p] = "SendEnq"
    /\ chanClosed[fr[p].c]
    /\ pc' = [pc EXCEPT ![p] = "panicked"]
    /\ lockR' = ReleaseR(p)
    /\ UNCHANGED <<clients, wmutex, chans, workers, env, objs, hpc, calls, fr>>

\* --------------------------------------- Stream.Broadcast and Publish
\* RLock() acquired; defer RUnlock(); the range loop over s.clients begins
EnterRange(p, op, t) ==
    /\ Free(p)
    /\ CanRLock
    /\ fr' = [fr EXCEPT ![p] = [IdleFrame EXCEPT !.op = op, !.t = t,
                  !.snap = DOMAIN clients, !.todo = DOMAIN clients]]
    /\ Called
    /\ lockR' = lockR \cup {p}
    /\ pc' = [pc EXCEPT ![p] = "Range"]
    /\ UNCHANGED <<clients, wmutex, chans, workers, env, objs, hpc>>

CallBroadcast(p) == EnterRange(p, "Broadcast", NoTopic)

CallPublish(p, t) == EnterRange(p, "Publish", t)

\* a faulty loop body: Broadcast skips the clients that have no topic
BroadcastWantsTopics(c) == DOMAIN clients[c] # {}

\* Broadcast's loop body: cli.Send(e) for every client
BroadcastWants(c) == TRUE

\* a faulty loop body: Publish tests the key's presence, not its value
PublishWantsPresent(t, c) == t \in DOMAIN clients[c]

\* Publish's loop body: if topics[topic] { cli.Send(e) }
PublishWants(t, c) == Lookup(clients[c], t)

\* one iteration of the range loop; Go visits the map's keys in any order
RangeNext(p) ==
    /\ pc[p] = "Range"
    /\ \E c \in fr[p].todo :
         IF \/ fr[p].op = "Broadcast" /\ BroadcastWants(c)
            \/ fr[p].op = "Publish" /\ PublishWants(fr[p].t, c)
         THEN /\ fr' = [fr EXCEPT ![p] = EnterSend(@, c)]
              /\ pc' = [pc EXCEPT ![p] = "SendCheck"]
         ELSE /\ fr' = [fr EXCEPT ![p].todo = @ \ {c}]
              /\ UNCHANGED pc
    /\ UNCHANGED <<stream, chans, workers, env, objs, hpc, calls>>

\* the loop is over: the deferred RUnlock, and return
RangeEnd(p) ==
    /\ pc[p] = "Range"
    /\ fr[p].todo = {}
    /\ lockR' = ReleaseR(p)
    /\ Return(p)
    /\ UNCHANGED <<clients, wmutex, chans, workers, env, objs, hpc, calls>>

\* a faulty wait: it returns whatever the counter
WaitOverAtOnce(c) == TRUE

\* ----------------------------------------- Client.Shutdown and Wait
\* c.waiter.Wait() returns once the WaitGroup counter is zero
WaitOver(c) == waiter[c] = 0

\* close(ch) on an open channel
ChanClose(c) == chanClosed' = [chanClosed EXCEPT ![c] = TRUE]

\* Client.Shutdown: close(c.events); on a closed channel close panics
\* ("close of closed channel")
CallClientShutdown(p, c) ==
    /\ Free(p)
    /\ Called
    /\ fr' = [fr EXCEPT ![p] = [IdleFrame EXCEPT !.op = "Shutdown", !.c = c]]
    /\ IF chanClosed[c]
       THEN /\ pc' = [pc EXCEPT ![p] = "panicked"]
            /\ UNCHANGED chanClosed
       ELSE /\ pc' = [pc EXCEPT ![p] = "ShutdownWait"]
            /\ ChanClose(c)
    /\ UNCHANGED <<stream, events, nEnq, workers, env, objs, hpc>>

\* Client.Shutdown: c.waiter.Wait() returns
ClientShutdownReturn(p) ==
    /\ pc[p] = "ShutdownWait"
    /\ WaitOver(fr[p].c)
    /\ Return(p)
    /\ UNCHANGED <<stream, chans, workers, env, objs, hpc, calls>>

\* a call of c.Wait()
CallWait(p, c) ==
    /\ Free(p)
    /\ fr' = [fr EXCEPT ![p] = [IdleFrame EXCEPT !.op = "Wait", !.c = c]]
    /\ pc' = [pc EXCEPT ![p] = "Wait"]
    /\ Called
    /\ UNCHANGED <<stream, chans, workers, env, objs, hpc>>

\* Client.Wait: c.waiter.Wait() returns
WaitReturn(p) ==
    /\ pc[p] = "Wait"
    /\ WaitOver(fr[p].c)
    /\ Return(p)
    /\ UNCHANGED <<stream, chans, workers, env, objs, hpc, calls>>

\* ---------------------------------------------------- Stream.Shutdown
\* a call of s.Shutdown() enters s.listLock.Lock()
CallStreamShutdown(p) ==
    /\ Free(p)
    /\ CanAnnounce
    /\ fr' = [fr EXCEPT ![p] = [IdleFrame EXCEPT !.op = "StreamShutdown"]]
    /\ wmutex' = p
    /\ pc' = [pc EXCEPT ![p] = "Lock"]
    /\ Called
    /\ UNCHANGED <<clients, lockR, chans, workers, env, objs, hpc>>

\* Lock() acquired; defer Unlock(); for client := range s.clients
StreamShutdownLocked(p) ==
    /\ pc[p] = "Lock" /\ fr[p].op = "StreamShutdown" /\ CanWrite(p)
    /\ fr' = [fr EXCEPT ![p].snap = DOMAIN clients, ![p].todo = DOMAIN clients]
    /\ pc' = [pc EXCEPT ![p] = "SRange"]
    /\ UNCHANGED <<stream, chans, workers, env, objs, hpc, calls>>

\* client.Shutdown(): close(c.events); on a client whose channel is closed
\* already close panics, and the panic unwinds Stream.Shutdown through the
\* deferred Unlock
StreamShutdownNext(p) ==
    /\ pc[p] = "SRange"
    /\ \E c \in fr[p].todo :
         /\ fr' = [fr EXCEPT ![p].c = c, ![p].todo = @ \ {c}, ![p].sent = @ \cup {c}]
         /\ IF chanClosed[c]
            THEN /\ pc' = [pc EXCEPT ![p] = "panicked"]
                 /\ wmutex' = ReleaseW(p)
                 /\ UNCHANGED chanClosed
            ELSE /\ pc' = [pc EXCEPT ![p] = "SWait"]
                 /\ ChanClose(c)
                 /\ UNCHANGED wmutex
    /\ UNCHANGED <<clients, lockR, events, nEnq, workers, env, objs, hpc, calls>>

\* a faulty Stream.Shutdown: the client stays in the registry
ShutdownDeleteMapKeep(m, c) == m

\* the registry after the loop body's delete(s.clients, client)
ShutdownDeleteMap(m, c) == MapDelete(m, c)

\* client.Shutdown() returns (its c.waiter.Wait() is over);
\* delete(s.clients, client)
StreamShutdownDelete(p) ==
    /\ pc[p] = "SWait"
    /\ WaitOver(fr[p].c)
    /\ clients' = ShutdownDeleteMap(clients, fr[p].c)
    /\ pc' = [pc EXCEPT ![p] = "SRange"]
    /\ UNCHANGED <<wmutex, lockR, chans, workers, env, objs, hpc, calls, fr>>

\* the loop is over: the deferred Unlock, and return
StreamShutdownEnd(p) ==
    /\ pc[p] = "SRange"
    /\ fr[p].todo = {}
    /\ wmutex' = ReleaseW(p)
    /\ Return(p)
    /\ UNCHANGED <<clients, lockR, chans, workers, env, objs, hpc, calls>>

\* ---------------------------------------------------------- Client.run
\* v := <-ch on a buffered channel: the value received
ChanHead(q) == Head(q)

\* a faulty receive: the head is read and left in the buffer
ChanRestPeek(q) == q

\* v := <-ch on a buffered channel: the buffer left behind
ChanRest(q) == Tail(q)

\* case ev, ok := <-c.events, ok true: the buffer's head is received
WorkerRecv(c) ==
    /\ wpc[c] = "select"
    /\ events[c] # <<>>
    /\ wev' = [wev EXCEPT ![c] = ChanHead(events[c])]
    /\ events' = [events EXCEPT ![c] = ChanRest(@)]
    /\ wpc' = [wpc EXCEPT ![c] = "copy"]
    /\ UNCHANGED <<stream, chanClosed, nEnq, closed, waiter, exitPath, wire,
                   env, objs, hpc, calls, pc, fr>>

\* a faulty worker: it leaves without setting c.closed
MarkClosedSkip(c) == closed' = closed

\* c.closed = true, on the worker's way out
MarkClosed(c) == closed' = [closed EXCEPT ![c] = TRUE]

\* a faulty channel: once closed it reports ok false whatever it holds
DrainedAtOnce(q) == TRUE

\* a receive on a closed channel reports ok false once its buffer is empty
Drained(q) == q = <<>>

\* case ev, ok := <-c.events, ok false (closed and drained): c.closed = true
WorkerRecvClosed(c) ==
    /\ wpc[c] = "select"
    /\ Drained(events[c])
    /\ chanClosed[c]
    /\ MarkClosed(c)
    /\ exitPath' = [exitPath EXCEPT ![c] = "sentinel"]
    /\ wpc' = [wpc EXCEPT ![c] = "closing"]
    /\ UNCHANGED <<stream, chans, waiter, wev, wire, env, objs, hpc, calls, pc, fr>>

\* case _ = <-c.close.CloseNotify(): c.closed = true
WorkerDisconnect(c) ==
    /\ wpc[c] = "select"
    /\ gone[c]
    /\ MarkClosed(c)
    /\ exitPath' = [exitPath EXCEPT ![c] = "disconnect"]
    /\ wpc' = [wpc EXCEPT ![c] = "closing"]
    /\ UNCHANGED <<stream, chans, waiter, wev, wire, env, objs, hpc, calls, pc, fr>>

\* a faulty worker: it returns without calling Done
DoneSkip(n) == n

\* the WaitGroup counter after Done()
Done(n) == n - 1

\* c.waiter.Done(); return
WorkerDone(c) ==
    /\ wpc[c] = "closing"
    /\ waiter' = [waiter EXCEPT ![c] = Done(@)]
    /\ wpc' = [wpc EXCEPT ![c] = "exited"]
    /\ UNCHANGED <<stream, chans, closed, wev, exitPath, wire, env, objs, hpc, calls, pc, fr>>

\* what the connection sees for the k-th Write call of event ev
WriteEntry(ev, k) == [seq |-> ev.seq, k |-> k]

\* what the connection sees for the Flush call that follows event ev
FlushEntry(ev) == [seq |-> ev.seq, k |-> 0]

\* a faulty worker: the event is written and not flushed
AfterWriteNoFlush(n) == IF n = Chunks THEN "select" ELSE "copy"

\* the worker's position after its n-th Write call of an event: io.Copy
\* goes on until the event is read to its end, then comes c.flush.Flush()
AfterWrite(n) == IF n = Chunks THEN "flush" ELSE "copy"

\* the event after one ev.Read of io.Copy: its buffer is filled by the first
\* of them; how far the buffer has been read is the count of Write calls
CopyRead(h, e) == IF WantsPrepare(e) THEN Prepare(h, e) ELSE e

\* io.Copy(c.write, ev): one ev.Read and one Write call on the connection
WorkerWrite(c) ==
    /\ wpc[c] = "copy"
    /\ ~stalled[c]
    /\ wire' = [wire EXCEPT ![c] = Append(@, WriteEntry(wev[c], wev[c].done + 1))]
    /\ wev' = [wev EXCEPT ![c].done = @ + 1,
                          ![c].ev = CopyRead(arrays, @)]
    /\ wpc' = [wpc EXCEPT ![c] = AfterWrite(wev[c].done + 1)]
    /\ UNCHANGED <<stream, chans, closed, waiter, exitPath, env, objs, hpc, calls, pc, fr>>

\* c.flush.Flush(), and back to the select
WorkerFlush(c) ==
    /\ wpc[c] = "flush"
    /\ wire' = [wire EXCEPT ![c] = Append(@, FlushEntry(wev[c]))]
    /\ wev' = [wev EXCEPT ![c] = NoEvent]
    /\ wpc' = [wpc EXCEPT ![c] = "select"]
    /\ UNCHANGED <<stream, chans, closed, waiter, exitPath, env, objs, hpc, calls, pc, fr>>

\* ------------------------------------------------------ the connection
\* the peer disconnects: the CloseNotify channel fires
Disconnect(c) ==
    /\ ~gone[c]
    /\ calls > 0
    /\ Called
    /\ gone' = [gone EXCEPT ![c] = TRUE]
    /\ UNCHANGED <<stream, chans, workers, stalled, pc, fr, objs, hpc>>

\* the transport stops taking bytes: the worker's Write call blocks
Stall(c) ==
    /\ wpc[c] = "copy"
    /\ ~stalled[c]
    /\ stalled' = [stalled EXCEPT ![c] = TRUE]
    /\ UNCHANGED <<stream, chans, workers, gone, calls, pc, fr, objs, hpc>>

\* ------------------------------------------------------ specifications
\* the steps of calls in progress
Step(p) ==
    \/ Register(p) \/ Remove(p) \/ Subscribe(p) \/ Unsubscribe(p)
    \/ SendCheck(p) \/ SendReturnErr(p) \/ SendEnqueue(p) \/ SendPanic(p)
    \/ RangeNext(p) \/ RangeEnd(p)
    \/ ClientShutdownReturn(p) \/ WaitReturn(p)
    \/ StreamShutdownLocked(p) \/ StreamShutdownNext(p)
    \/ StreamShutdownDelete(p) \/ StreamShutdownEnd(p)

\* the steps of a client's worker
Worker(c) ==
    \/ WorkerRecv(c) \/ WorkerRecvClosed(c) \/ WorkerDisconnect(c)
    \/ WorkerDone(c) \/ WorkerWrite(c) \/ WorkerFlush(c)

\* calls on the Stream
CallStream(p) ==
    \/ \E c \in Clients : CallRegister(p, c) \/ CallRemove(p, c)
    \/ \E c \in Clients, t \in Topics :
         CallSubscribe(p, t, c) \/ CallUnsubscribe(p, t, c)
    \/ CallBroadcast(p)
    \/ \E t \in Topics : CallPublish(p, t)
    \/ CallStreamShutdown(p)

\* calls on a Client
CallClient(p, c) ==
    \/ CallSend(p, c) \/ CallClientShutdown(p, c) \/ CallWait(p, c)

\* The whole library: every call on the Stream and on every client.
Init == InitWith(MaxCalls)

Next ==
    \/ \E p \in Procs : Step(p) \/ CallStream(p)
    \/ \E p \in Procs, c \in Clients : CallClient(p, c)
    \/ \E c \in Clients : Worker(c) \/ Disconnect(c) \/ Stall(c)

Spec == Init /\ [][Next]_vars

\* One client and its direct callers: Send, Shutdown and Wait on the
\* client, its worker and its connection.
Solo == CHOOSE c \in Clients : \A d \in Clients : c <= d

InitClient == InitWith(ClientCalls)

NextClient ==
    \/ \E p \in Procs :
         \/ CallClient(p, Solo)
         \/ SendCheck(p) \/ SendReturnErr(p) \/ SendEnqueue(p) \/ SendPanic(p)
         \/ ClientShutdownReturn(p) \/ WaitReturn(p)
    \/ Worker(Solo) \/ Disconnect(Solo) \/ Stall(Solo)

SpecClient == InitClient /\ [][NextClient]_vars

\* The Stream and its callers: the registry, Broadcast, Publish and
\* Stream.Shutdown, with every client's worker and every peer's disconnect.
NextStream ==
    \/ \E p \in Procs :
         \/ CallStream(p)
         \/ Register(p) \/ Remove(p) \/ Subscribe(p) \/ Unsubscribe(p)
         \/ RangeNext(p) \/ RangeEnd(p)
         \/ SendCheck(p) \/ SendReturnErr(p) \/ SendEnqueue(p)
         \/ StreamShutdownLocked(p) \/ StreamShutdownNext(p)
         \/ StreamShutdownDelete(p) \/ StreamShutdownEnd(p)
    \/ \E c \in Clients : Worker(c) \/ Disconnect(c)

SpecStream == Init /\ [][NextStream]_vars

\* Broadcast and Publish to clients whose connection may stop taking bytes.
InitStall == InitWith(StallCalls)

NextStall ==
    \/ \E p \in Procs :
         \/ \E c \in Clients, t \in Topics : CallSubscribe(p, t, c)
         \/ CallBroadcast(p)
         \/ \E t \in Topics : CallPublish(p, t)
         \/ Subscribe(p) \/ RangeNext(p) \/ RangeEnd(p)
         \/ SendCheck(p) \/ SendEnqueue(p)
    \/ \E c \in Clients : WorkerRecv(c) \/ WorkerWrite(c) \/ WorkerFlush(c) \/ Stall(c)

SpecStall == InitStall /\ [][NextStall]_vars

\* Remove among registrations and direct Sends: clients are registered,
\* subscribed and removed while goroutines send to them directly.
InitRemove == InitWith(RemoveCalls)

NextRemove ==
    \/ \E p \in Procs :
         \/ \E c \in Clients :
              CallRegister(p, c) \/ CallRemove(p, c) \/ CallSend(p, c)
         \/ \E c \in Clients, t \in Topics : CallSubscribe(p, t, c)
         \/ Register(p) \/ Remove(p) \/ Subscribe(p)
         \/ SendCheck(p) \/ SendReturnErr(p) \/ SendEnqueue(p)
    \/ \E c \in Clients :
         \/ WorkerRecv(c) \/ WorkerWrite(c) \/ WorkerFlush(c)
         \/ WorkerDisconnect(c) \/ WorkerDone(c) \/ Disconnect(c)

SpecRemove == InitRemove /\ [][NextRemove]_vars

\* ------------------------------------------------- calls on an Event
\* the arguments the calls are made with
Seven == <<"7">>
Tick == <<"t", "i", "c", "k">>
Hello == <<"h", "e", "l", "l", "o">>
IdIn == {Seven}
TypeIn == {Tick}
RetryIn == {12}
DataIn == {<<>>, Hello, <<"a", NL, NL, "b">>}
WriteIn == {<<NL, "c", NL>>}
RawIn == {<<"z">>}
ReadIn == {0, 2, 64}

\* a call on Event object x that changes it: the object and the heap after
\* it; the bytes of the Reads are counted anew
Mutated(x, op, arg, h, e) ==
    /\ calls > 0
    /\ Called
    /\ who' = x
    /\ obj' = [obj EXCEPT ![x] = e]
    /\ arrays' = h
    /\ ret' = [ret EXCEPT ![x] = [NoRet EXCEPT !.op = op, !.arg = arg]]
    /\ got' = [got EXCEPT ![x] = <<>>]
    /\ pure' = [pure EXCEPT ![x] = TRUE]
    /\ UNCHANGED <<stream, chans, workers, env, pc, fr, hpc>>

DoID(x, id) == Mutated(x, "ID", id, arrays, ID(obj[x], id))

DoType(x, t) == Mutated(x, "Type", t, arrays, Type(obj[x], t))

DoRetry(x, t) == Mutated(x, "Retry", <<>>, arrays, Retry(obj[x], t))

DoData(x, dat) ==
    LET r == Data(arrays, obj[x], dat) IN Mutated(x, "Data", dat, r.h, r.e)

DoAppendData(x, dat) ==
    LET r == AppendData(arrays, obj[x], dat) IN Mutated(x, "AppendData", dat,
                                                       r.h, r.e)

DoWrite(x, p) ==
    LET r == Write(arrays, obj[x], p) IN Mutated(x, "Write", p, r.h, r.e)

\* x.WriteRaw(p)
DoWriteRaw(x, p) ==
    /\ calls > 0
    /\ Called
    /\ who' = x
    /\ obj' = [obj EXCEPT ![x] = WriteRaw(@, p)]
    /\ ret' = [ret EXCEPT ![x] = [NoRet EXCEPT !.op = "WriteRaw", !.arg = p]]
    /\ pure' = [pure EXCEPT ![x] = FALSE]
    /\ UNCHANGED <<stream, chans, workers, env, pc, fr, hpc, arrays, got>>

\* x.Read(p) with len(p) = n
DoRead(x, n) ==
    LET r == Read(arrays, obj[x], n) IN
    /\ calls > 0
    /\ Called
    /\ who' = x
    /\ obj' = [obj EXCEPT ![x] = r.e]
    /\ ret' = [ret EXCEPT ![x] = [NoRet EXCEPT !.op = "Read", !.n = n,
                                     !.bytes = r.bytes, !.eof = r.eof]]
    /\ got' = [got EXCEPT ![x] = @ \o r.bytes]
    /\ UNCHANGED <<stream, chans, workers, env, pc, fr, hpc, arrays, pure>>

\* x.String()
DoString(x) ==
    LET r == String(arrays, obj[x]) IN
    /\ calls > 0
    /\ Called
    /\ who' = x
    /\ obj' = [obj EXCEPT ![x] = r.e]
    /\ ret' = [ret EXCEPT ![x] = [NoRet EXCEPT !.op = "String", !.bytes = r.bytes]]
    /\ pure' = [pure EXCEPT ![x] = FALSE]
    /\ UNCHANGED <<stream, chans, workers, env, pc, fr, hpc, arrays, got>>

\* y = x.Clone()
DoClone(x, y) ==
    LET r == Clone(arrays, obj[x]) IN
    /\ x # y
    /\ calls > 0
    /\ Called
    /\ who' = x
    /\ obj' = [obj EXCEPT ![y] = r.e]
    /\ arrays' = r.h
    /\ ret' = [ret EXCEPT ![x] = [NoRet EXCEPT !.op = "Clone"],
                          ![y] = [NoRet EXCEPT !.op = "cloned"]]
    /\ got' = [got EXCEPT ![y] = <<>>]
    /\ pure' = [pure EXCEPT ![y] = TRUE]
    /\ UNCHANGED <<stream, chans, workers, env, pc, fr, hpc>>

\* the calls that set a field of x
Setter(x) ==
    \/ \E id \in IdIn : DoID(x, id)
    \/ \E t \in TypeIn : DoType(x, t)
    \/ \E t \in RetryIn : DoRetry(x, t)
    \/ \E dat \in DataIn : DoData(x, dat) \/ DoAppendData(x, dat)
    \/ \E p \in WriteIn : DoWrite(x, p)

\* Event objects and their one caller: every call on an event, in every
\* order, and on its clone the calls that set its id and its data.
InitEvent == InitWith(EventCalls)

NextEvent ==
    \/ Setter("e")
    \/ \E p \in RawIn : DoWriteRaw("e", p)
    \/ \E n \in ReadIn : DoRead("e", n)
    \/ DoString("e")
    \/ DoClone("e", "k")
    \/ \E id \in IdIn : DoID("k", id)
    \/ \E dat \in DataIn : DoData("k", dat)

SpecEvent == InitEvent /\ [][NextEvent]_vars

\* ------------------------------------------- events sent and then changed
\* the goroutine that owns the event
Owner == "p"

\* the owner is not inside a call that reads the event
Quiet == pc[Owner] = "idle"

\* the owner sets the event between its Sends and Broadcasts
OwnerSets ==
    /\ Quiet
    /\ \E dat \in DataIn : DoData(Arg, dat)

\* One event and the goroutine that owns it: the owner registers clients,
\* sends the event directly, broadcasts it and sets it in between, while the
\* workers write their copies.
InitClone == InitWith(CloneCalls)

NextClone ==
    \/ OwnerSets
    \/ \E c \in Clients : CallRegister(Owner, c)
    \/ CallBroadcast(Owner)
    \/ Register(Owner) \/ RangeNext(Owner) \/ RangeEnd(Owner)
    \/ SendCheck(Owner) \/ SendEnqueue(Owner)
    \/ \E c \in Clients : WorkerRecv(c) \/ WorkerWrite(c) \/ WorkerFlush(c)

SpecClone == InitClone /\ [][NextClone]_vars

\* ------------------------------------------------- Stream.ServeHTTP
\* the goroutine that serves the connection of client c
HandlerOf(c) == "h" \o ToString(c)

\* s.Register(c): the handler enters s.listLock.Lock()
HandlerCallRegister(c) ==
    /\ hpc[c] = "start"
    /\ CanAnnounce
    /\ wmutex' = HandlerOf(c)
    /\ hpc' = [hpc EXCEPT ![c] = "Register"]
    /\ UNCHANGED <<clients, lockR, chans, workers, env, objs, calls, pc, fr>>

\* the body of s.Register(c) and its deferred Unlock; then c.Wait() begins
HandlerRegister(c) ==
    /\ hpc[c] = "Register"
    /\ CanWrite(HandlerOf(c))
    /\ clients' = RegisterMap(clients, c)
    /\ wmutex' = ReleaseW(HandlerOf(c))
    /\ hpc' = [hpc EXCEPT ![c] = "Wait"]
    /\ UNCHANGED <<lockR, chans, workers, env, objs, calls, pc, fr>>

\* c.Wait() returns
HandlerWait(c) ==
    /\ hpc[c] = "Wait"
    /\ WaitOver(c)
    /\ hpc' = [hpc EXCEPT ![c] = "CallRemove"]
    /\ UNCHANGED <<stream, chans, workers, env, objs, calls, pc, fr>>

\* s.Remove(c): the handler enters s.listLock.Lock()
HandlerCallRemove(c) ==
    /\ hpc[c] = "CallRemove"
    /\ CanAnnounce
    /\ wmutex' = HandlerOf(c)
    /\ hpc' = [hpc EXCEPT ![c] = "Remove"]
    /\ UNCHANGED <<clients, lockR, chans, workers, env, objs, calls, pc, fr>>

\* the body of s.Remove(c) and its deferred Unlock; ServeHTTP returns
HandlerRemove(c) ==
    /\ hpc[c] = "Remove"
    /\ CanWrite(HandlerOf(c))
    /\ clients' = RemoveMap(clients, c)
    /\ wmutex' = ReleaseW(HandlerOf(c))
    /\ hpc' = [hpc EXCEPT ![c] = "returned"]
    /\ UNCHANGED <<lockR, chans, workers, env, objs, calls, pc, fr>>

\* the steps of the handler of client c
Handler(c) ==
    \/ HandlerCallRegister(c) \/ HandlerRegister(c) \/ HandlerWait(c)
    \/ HandlerCallRemove(c) \/ HandlerRemove(c)

\* the steps of a Broadcast in progress
Broadcasting(p) ==
    \/ RangeNext(p) \/ RangeEnd(p)
    \/ SendCheck(p) \/ SendReturnErr(p) \/ SendEnqueue(p)

\* the steps of the worker of a client nobody shuts down
Serving(c) ==
    \/ WorkerRecv(c) \/ WorkerWrite(c) \/ WorkerFlush(c)
    \/ WorkerDisconnect(c) \/ WorkerDone(c)

\* The Stream as an http.Handler: every client is an accepted connection
\* with its handler goroutine, goroutines broadcast, peers disconnect.  The
\* Go scheduler runs every goroutine that can take a step: handlers,
\* broadcasters and workers are weakly fair; the calls of Broadcast and
\* the disconnects are not.
InitHandler == InitWith(HandlerCalls)

NextHandler ==
    \/ \E p \in Procs : CallBroadcast(p) \/ Broadcasting(p)
    \/ \E c \in Clients : Handler(c) \/ Serving(c) \/ Disconnect(c)

FairHandler ==
    /\ \A c \in Clients : WF_vars(Handler(c)) /\ WF_vars(Serving(c))
    /\ \A p \in Procs : WF_vars(Broadcasting(p))

SpecHandler == InitHandler /\ [][NextHandler]_vars /\ FairHandler

\* ------------------------------------------- shutting down, both ways
\* a caller that shuts a client down directly only while its channel is
\* open: no client gets more than one direct Shutdown
ShutdownOnce(p, c) ==
    /\ ~chanClosed[c]
    /\ CallClientShutdown(p, c)

\* Clients are registered and shut down, directly (once each at most) and
\* by Stream.Shutdown, while peers disconnect.
InitShutdown == InitWith(ShutdownCalls)

NextShutdown ==
    \/ \E p \in Procs :
         \/ \E c \in Clients : CallRegister(p, c) \/ ShutdownOnce(p, c)
         \/ CallStreamShutdown(p)
         \/ Register(p) \/ ClientShutdownReturn(p)
         \/ StreamShutdownLocked(p) \/ StreamShutdownNext(p)
         \/ StreamShutdownDelete(p) \/ StreamShutdownEnd(p)
    \/ \E c \in Clients :
         \/ WorkerRecvClosed(c) \/ WorkerDisconnect(c) \/ WorkerDone(c)
         \/ Disconnect(c)

SpecShutdown == InitShutdown /\ [][NextShutdown]_vars

\* ---------------------------------------------- raw events sent
\* the owner fills the event, by WriteRaw or by Data, between its Sends
OwnerWrites ==
    /\ Quiet
    /\ \/ \E p \in RawIn : DoWriteRaw(Arg, p)
       \/ \E dat \in DataIn : DoData(Arg, dat)

\* One event, filled by its owner and sent to one client, whose worker
\* writes what it receives.
InitRaw == InitWith(RawCalls)

NextRaw ==
    \/ OwnerWrites
    \/ CallSend(Owner, Solo)
    \/ SendCheck(Owner) \/ SendEnqueue(Owner)
    \/ WorkerRecv(Solo) \/ WorkerWrite(Solo) \/ WorkerFlush(Solo)

SpecRaw == InitRaw /\ [][NextRaw]_vars

\* ================================================================ claims
\* goroutine p is inside Client.Send
InSend(p) == pc[p] \in {"SendCheck", "SendEnq", "SendErr"}

\* goroutine p is inside the range loop of a call of op, the read lock held
InRange(p, op) == fr[p].op = op /\ (pc[p] = "Range" \/ InSend(p))

\* goroutine p has finished the range loop of a call of op: the call returns
AtRangeEnd(p, op) == fr[p].op = op /\ pc[p] = "Range" /\ fr[p].todo = {}

\* the registered clients whose topic list has topic t set
Subscribed(t) == {c \in DOMAIN clients : Lookup(clients[c], t)}

\* C1: Publish(topic, ev) calls Send on registered clients subscribed to
\* topic only, and when it returns it has called Send on every one of them:
\* the event is enqueued for each, except for those already closed, whose
\* Send returned the error.
C1_PublishExactlySubscribed ==
    \A p \in Procs :
        InRange(p, "Publish") =>
            /\ fr[p].sent \subseteq Subscribed(fr[p].t)
            /\ fr[p].enq \subseteq fr[p].sent
            /\ AtRangeEnd(p, "Publish") =>
                 /\ fr[p].sent = Subscribed(fr[p].t)
                 /\ \A c \in fr[p].sent \ fr[p].enq : closed[c]

\* a Publish returns having enqueued for a subscriber and skipped a
\* registered client that is not subscribed
C1_Witness ==
    \E p \in Procs :
        /\ AtRangeEnd(p, "Publish")
        /\ fr[p].enq # {}
        /\ DOMAIN clients \ fr[p].sent # {}

\* C2: Broadcast(ev) calls Send on registered clients only, and when it
\* returns it has called Send on every client of the registry, whatever
\* its topic list; the registry is the one it found when it took the lock.
C2_BroadcastAllRegistered ==
    \A p \in Procs :
        InRange(p, "Broadcast") =>
            /\ fr[p].snap = DOMAIN clients
            /\ fr[p].sent \subseteq DOMAIN clients
            /\ fr[p].sent \cup fr[p].todo = DOMAIN clients
            /\ AtRangeEnd(p, "Broadcast") => fr[p].sent = DOMAIN clients

\* a Broadcast returns having sent to a client with no topic at all and to
\* a client that has topics
C2_Witness ==
    \E p \in Procs :
        /\ AtRangeEnd(p, "Broadcast")
        /\ \E a, b \in fr[p].enq :
             /\ DOMAIN clients[a] = {}
             /\ DOMAIN clients[b] # {}

\* client c is registered in registry m with topic t set
IsSub(m, c, t) == c \in DOMAIN m /\ Lookup(m[c], t)

\* the step is the body of p's call of op
BodyStep(p, op) == pc[p] = "Lock" /\ fr[p].op = op /\ pc'[p] = "idle"

\* an Unsubscribe(t, A) on a registered client keeps the registry's clients,
\* clears t for A and changes nothing else
C3_UnsubscribeFrame ==
    \A p \in Procs :
        BodyStep(p, "Unsubscribe") /\ fr[p].c \in DOMAIN clients =>
            /\ DOMAIN clients' = DOMAIN clients
            /\ NumClients' = NumClients
            /\ ~IsSub(clients', fr[p].c, fr[p].t)
            /\ \A c \in DOMAIN clients, t \in Topics :
                 <<c, t>> # <<fr[p].c, fr[p].t>> =>
                     IsSub(clients', c, t) = IsSub(clients, c, t)

\* a topic becomes set for a client by a Subscribe of that topic and client
\* only
C3_OnlySubscribeSets ==
    \A c \in Clients, t \in Topics :
        ~IsSub(clients, c, t) /\ IsSub(clients', c, t) =>
            \E p \in Procs :
                BodyStep(p, "Subscribe") /\ fr[p].c = c /\ fr[p].t = t

\* Publish never calls Send on a client whose topic is not set, and a
\* Broadcast leaves out no registered client
C3_Delivery ==
    \A p \in Procs :
        /\ InRange(p, "Publish") =>
             \A c \in fr[p].sent : IsSub(clients, c, fr[p].t)
        /\ InRange(p, "Broadcast") =>
             DOMAIN clients \subseteq fr[p].sent \cup fr[p].todo

\* C3: after Unsubscribe(t, A) on a registered client A, A is still
\* registered (the number of clients is unchanged and Broadcast still sends
\* to A), Publish(t) does not send to A until a Subscribe(t, A), and A's
\* other topics, like every other client's, are unchanged.
C3_UnsubscribeKeepsClient ==
    /\ []C3_Delivery
    /\ [][C3_UnsubscribeFrame /\ C3_OnlySubscribeSets]_vars

\* a Publish(t) returns having skipped a registered client whose entry for
\* t an Unsubscribe has cleared
C3_Witness ==
    \E p \in Procs :
        /\ AtRangeEnd(p, "Publish")
        /\ \E c \in DOMAIN clients \ fr[p].sent :
             /\ fr[p].t \in DOMAIN clients[c]
             /\ ~clients[c][fr[p].t]

\* C6: when Stream.Shutdown returns, every client that was registered when
\* it took the lock is closed, its worker has exited, and the registry is
\* empty (NumClients() is 0).
C6_StreamShutdownAll ==
    \A p \in Procs :
        fr[p].op = "StreamShutdown" /\ pc[p] = "SRange" /\ fr[p].todo = {} =>
            /\ NumClients = 0
            /\ fr[p].sent = fr[p].snap
            /\ \A c \in fr[p].snap :
                 closed[c] /\ wpc[c] = "exited" /\ waiter[c] = 0

\* a Stream.Shutdown that found every client registered is about to return
C6_Witness ==
    \E p \in Procs :
        /\ fr[p].op = "StreamShutdown" /\ pc[p] = "SRange" /\ fr[p].todo = {}
        /\ fr[p].snap = Clients

\* C4: a Send that starts after the client's worker has terminated, by
\* Shutdown or by disconnection, finds c.closed set and returns
\* io.ErrClosedPipe: it never reaches the channel send, so it enqueues
\* nothing, does not block and does not panic.
C4_SendAfterTermination ==
    \A p \in Procs :
        fr[p].late /\ (InSend(p) \/ pc[p] = "panicked") =>
            /\ pc[p] \in {"SendCheck", "SendErr"}
            /\ closed[fr[p].c]
            /\ fr[p].c \notin fr[p].enq

\* a Send begun after a Shutdown ended the worker is returning the error
C4_Witness ==
    \E p \in Procs :
        /\ pc[p] = "SendErr" /\ fr[p].late
        /\ exitPath[fr[p].c] = "sentinel"

\* C5: the step in which Client.Shutdown returns happens with c.closed
\* true, the worker exited and the WaitGroup counter zero (so that every
\* c.Wait() can return), whichever way the worker left its loop.
C5_ShutdownReturns ==
    [][\A p \in Procs :
          pc[p] = "ShutdownWait" /\ pc'[p] = "idle" =>
              /\ closed[fr[p].c] /\ closed'[fr[p].c]
              /\ wpc[fr[p].c] = "exited" /\ wpc'[fr[p].c] = "exited"
              /\ waiter'[fr[p].c] = 0
              /\ \A q \in Procs :
                   pc'[q] = "Wait" /\ fr'[q].c = fr[p].c =>
                       waiter'[fr'[q].c] = 0]_vars

\* a Shutdown is about to return on a client whose worker left by the
\* disconnect case, a Wait on the same client pending
C5_Witness ==
    \E p, q \in Procs :
        /\ pc[p] = "ShutdownWait" /\ waiter[fr[p].c] = 0
        /\ exitPath[fr[p].c] = "disconnect"
        /\ pc[q] = "Wait" /\ fr[q].c = fr[p].c

\* the events whose writing the worker of c has begun, in wire order
Begun(c) == SelectSeq(wire[c], LAMBDA e : e.k = 1)

\* C7: the worker writes a client's events in the order in which their
\* Sends completed the enqueue (the order of the tags), each event once.
C7_Fifo ==
    \A c \in Clients :
        /\ \A i, j \in 1..Len(wire[c]) :
             i < j => wire[c][i].seq <= wire[c][j].seq
        /\ \A i, j \in 1..Len(Begun(c)) :
             i < j => Begun(c)[i].seq < Begun(c)[j].seq
        /\ \A i \in 1..Len(wire[c]) : wire[c][i].seq \in 1..nEnq[c]

\* three events have been enqueued and the worker has begun the third
C7_Witness ==
    \E c \in Clients :
        /\ Len(Begun(c)) >= 3
        /\ nEnq[c] >= 3

\* entry e may follow entry d on the connection: a write of an event is
\* followed by the next write of the same event, the last write by the
\* event's flush, and a flush by the first write of another event
Follows(d, e) ==
    IF d.k = 0 THEN e.k = 1 /\ e.seq # d.seq
    ELSE IF d.k = Chunks THEN e.k = 0 /\ e.seq = d.seq
    ELSE e.k = d.k + 1 /\ e.seq = d.seq

\* C8: the bytes on a client's connection are whole events one after the
\* other, never interleaved, each followed by a flush before the next
\* event's first byte, whatever the number of concurrent Sends.
C8_WholeEvents ==
    \A c \in Clients :
        /\ wire[c] # <<>> => wire[c][1].k = 1
        /\ \A i \in 2..Len(wire[c]) : Follows(wire[c][i - 1], wire[c][i])

\* the worker is in the middle of its second event while two goroutines
\* are inside Send
C8_Witness ==
    \E c \in Clients :
        /\ Len(wire[c]) >= Chunks + 2
        /\ \A p \in Procs : InSend(p) /\ fr[p].c = c

\* the step is a step of p's call of Wait
WaitStep(p) ==
    \/ pc[p] # "Wait" /\ pc'[p] = "Wait"
    \/ pc[p] = "Wait" /\ pc'[p] # "Wait"

\* a client whose channel nobody closed and whose connection is there is
\* active: c.closed is false and its worker runs
C10_StaysActive ==
    \A c \in Clients :
        ~chanClosed[c] /\ ~gone[c] =>
            ~closed[c] /\ waiter[c] = 1 /\ wpc[c] \notin {"closing", "exited"}

\* a Wait whose client's worker has exited can return
C10_CanReturn ==
    \A p \in Procs :
        pc[p] = "Wait" /\ wpc[fr[p].c] = "exited" => ENABLED WaitReturn(p)

\* Wait returns only from a state in which the worker has exited, and no
\* step of Wait changes a client's channel, flag, worker or connection
C10_WaitStep ==
    \A p \in Procs :
        WaitStep(p) =>
            /\ pc[p] = "Wait" => wpc[fr[p].c] = "exited"
            /\ UNCHANGED <<events, chanClosed, nEnq, closed, waiter, wpc,
                           wev, exitPath, wire, gone, stalled>>

\* C10: Wait returns only after the client's worker has terminated, it can
\* return once the worker has terminated by either path, and it changes
\* nothing of the client: a client that is only waited on stays active.
C10_Wait ==
    /\ [](C10_StaysActive /\ C10_CanReturn)
    /\ [][C10_WaitStep]_vars

\* a Wait is about to return after the disconnection ended the worker,
\* with no Shutdown called
C10_Witness ==
    \E p \in Procs :
        /\ pc[p] = "Wait" /\ wpc[fr[p].c] = "exited"
        /\ exitPath[fr[p].c] = "disconnect"
        /\ ~chanClosed[fr[p].c]

\* goroutine p is blocked in the channel send of a Broadcast or a Publish:
\* the client's buffer is full and its worker is stuck in a write
BlockedOnStalled(p) ==
    /\ pc[p] = "SendEnq"
    /\ fr[p].op \in {"Broadcast", "Publish"}
    /\ Len(events[fr[p].c]) = ChanCap
    /\ wpc[fr[p].c] = "copy"
    /\ stalled[fr[p].c]

\* C9: a client whose worker is stuck in a write on its connection blocks
\* no Broadcast and no Publish: none of them, holding the read lock, waits
\* on that client's full channel.
C9_StalledBlocksNobody ==
    \A p \in Procs : ~BlockedOnStalled(p)

\* the worker of client c has left its loop
WorkerLeft(c) == wpc[c] \in {"closing", "exited"}

\* the step of Remove(c) takes c, and nothing else, out of the registry and
\* touches no client's channel, flag, worker or connection
C11_RemoveStep ==
    \A p \in Procs :
        BodyStep(p, "Remove") =>
            /\ DOMAIN clients' = DOMAIN clients \ {fr[p].c}
            /\ \A d \in DOMAIN clients' : clients'[d] = clients[d]
            /\ UNCHANGED <<events, chanClosed, nEnq, closed, waiter, wpc, wev,
                           exitPath, wire, gone, stalled>>

\* registered or not, a client is closed by its worker leaving the loop
\* only, and a Send to it returns the error only then
C11_SendUnaffected ==
    /\ \A c \in Clients : closed[c] => WorkerLeft(c)
    /\ \A p \in Procs :
         /\ pc[p] = "SendErr" => WorkerLeft(fr[p].c)
         /\ pc[p] = "SendEnq" /\ fr[p].op = "Send"
              /\ events[fr[p].c] = <<>> /\ ~chanClosed[fr[p].c] =>
                ENABLED SendEnqueue(p)

\* C11: Remove(c) deletes c with its topic list from the registry and
\* changes nothing else: the other clients' entries stay, c's worker goes
\* on, c is not closed, and a direct Send to c enqueues as before.
C11_RemoveOnlyUnregisters ==
    /\ []C11_SendUnaffected
    /\ [][C11_RemoveStep]_vars

\* Remove(c) holds the lock on a subscribed client c whose worker runs
\* while a direct Send to c has passed its test of c.closed
C11_Witness ==
    \E p, q \in Procs :
        /\ pc[p] = "Lock" /\ fr[p].op = "Remove" /\ CanWrite(p)
        /\ fr[p].c \in DOMAIN clients /\ DOMAIN clients[fr[p].c] # {}
        /\ pc[q] = "SendEnq" /\ fr[q].op = "Send" /\ fr[q].c = fr[p].c
        /\ ~closed[fr[p].c] /\ wpc[fr[p].c] = "select"

\* the data entries of Event object x
Lines(x) == Elems(arrays, obj[x].data)

RECURSIVE Flat(_)
\* the concatenation of a sequence of strings
Flat(ss) == IF ss = <<>> THEN <<>> ELSE Head(ss) \o Flat(Tail(ss))

RECURSIVE ValueOf(_)
\* the number a string of decimal digits denotes
ValueOf(d) ==
    IF d = <<>> THEN 0
    ELSE 10 * ValueOf(SubSeq(d, 1, Len(d) - 1))
         + (CHOOSE v \in 0..9 : Digit[v + 1] = d[Len(d)])

\* the decimal numeral of n < 100: no leading zero
Numeral(n) ==
    CHOOSE d \in {<<Digit[a]>> : a \in 1..10}
                 \cup {<<Digit[a], Digit[b]>> : a \in 2..10, b \in 1..10} :
        ValueOf(d) = n

\* the wire format of Event object x, line by line
Rendering(x) ==
    Flat(<<IF obj[x].event # <<>>
             THEN <<"e", "v", "e", "n", "t", ":", " ">> \o obj[x].event \o <<NL>>
             ELSE <<>>,
           IF obj[x].id # <<>>
             THEN <<"i", "d", ":", " ">> \o obj[x].id \o <<NL>>
             ELSE <<>>,
           Flat([i \in 1..Len(Lines(x)) |->
                    <<"d", "a", "t", "a", ":", " ">> \o Lines(x)[i] \o <<NL>>]),
           IF obj[x].retry > 0
             THEN <<"r", "e", "t", "r", "y", ":", " ">>
                  \o Numeral(obj[x].retry) \o <<NL>>
             ELSE <<>>,
           <<NL>>>>)

\* the example: id 7, type tick, the one data line hello, no retry
IsExample(x) ==
    /\ obj[x].id = Seven /\ obj[x].event = Tick
    /\ Lines(x) = <<Hello>> /\ obj[x].retry = 0

\* "event: tick\nid: 7\ndata: hello\n\n"
ExampleBytes ==
    <<"e", "v", "e", "n", "t", ":", " ", "t", "i", "c", "k", NL,
      "i", "d", ":", " ", "7", NL,
      "d", "a", "t", "a", ":", " ", "h", "e", "l", "l", "o", NL, NL>>

\* C14: String() returns the event line if the type is not empty, then the
\* id line if the id is not empty, then one data line per entry in order,
\* then the retry line if retry > 0, then an empty line; for the example
\* exactly "event: tick\nid: 7\ndata: hello\n\n".
C14_WireFormat ==
    \A x \in Objs :
        ret[x].op = "String" =>
            /\ ret[x].bytes = Rendering(x)
            /\ IsExample(x) => ret[x].bytes = ExampleBytes

\* String() has returned on the example event
C14_Witness ==
    \E x \in Objs : ret[x].op = "String" /\ IsExample(x)

\* the calls that set a field of an event
SetterOps == {"ID", "Type", "Retry", "Data", "AppendData", "Write"}

\* C15: after a call of ID, Type, Retry, Data, AppendData or Write the
\* event is marked for rendering (bufSet is false), and the first Read
\* after it returns the first bytes of the rendering of the fields as they
\* are, a String after it the whole of it, whatever the buffer still held.
C15_MutationInvalidates ==
    \A x \in Objs :
        /\ ret[x].op \in SetterOps => ~obj[x].bufSet
        /\ ret[x].op = "Read" /\ pure[x] /\ got[x] = ret[x].bytes =>
             ret[x].bytes = Take(Rendering(x), ret[x].n)
        /\ ret[x].op = "String" =>
             ret[x].bytes = Rendering(x) /\ obj[x].buf = Rendering(x)

\* a setter has returned on an event whose buffer holds the unread rest of
\* an earlier rendering
C15_Witness ==
    \E x \in Objs :
        /\ ret[x].op \in SetterOps
        /\ obj[x].buf # <<>>
        /\ obj[x].buf # Rendering(x)
        /\ Len(obj[x].buf) < Len(Rendering(x))

\* q is the beginning of r
IsPrefix(q, r) == Len(q) <= Len(r) /\ q = SubSeq(r, 1, Len(q))

\* C16: as long as only Read is called on an event since it was last set,
\* the bytes returned so far, followed by the bytes still in the buffer,
\* are one copy of the rendering; a Read of a non-empty buffer returns
\* bytes, and end-of-stream comes exactly when the whole copy was returned.
C16_ReadOnce ==
    \A x \in Objs :
        pure[x] =>
            /\ IsPrefix(got[x], Rendering(x))
            /\ obj[x].bufSet => got[x] \o obj[x].buf = Rendering(x)
            /\ ret[x].op = "Read" =>
                 /\ ret[x].eof => got[x] = Rendering(x) /\ ret[x].bytes = <<>>
                 /\ ~ret[x].eof /\ ret[x].n > 0 => ret[x].bytes # <<>>
                 /\ got[x] = Rendering(x) /\ ret[x].bytes = <<>>
                      /\ ret[x].n > 0 => ret[x].eof

\* an event of several lines has been read to the end by Reads alone, and
\* the last Read returned end-of-stream
C16_Witness ==
    \E x \in Objs :
        /\ pure[x] /\ ret[x].op = "Read" /\ ret[x].eof
        /\ got[x] = Rendering(x)
        /\ Len(Lines(x)) >= 2

\* the first character of each maximal run of characters other than "\n"
RunStarts(s) ==
    {i \in 1..Len(s) : s[i] # NL /\ (i = 1 \/ s[i - 1] = NL)}

\* the run that starts at i
RunAt(s, i) ==
    SubSeq(s, i, CHOOSE j \in i..Len(s) :
                     /\ \A k \in i..j : s[k] # NL
                     /\ j = Len(s) \/ s[j + 1] = NL)

\* the maximal runs of characters other than "\n", in order
Runs(s) ==
    LET n == Cardinality(RunStarts(s))
        at == CHOOSE f \in [1..n -> RunStarts(s)] :
                  \A i, j \in 1..n : i < j => f[i] < f[j]
    IN  [i \in 1..n |-> RunAt(s, at[i])]

\* the data entries of x after the step
LinesAfter(x) == Elems(arrays', obj'[x].data)

\* the step is a call on Event object x
CallOn(x) == calls' # calls /\ who' = x

\* what AppendData, Write and Data do to the data entries
C17_Step ==
    \A x \in Objs :
        CallOn(x) =>
            /\ ret'[x].op \in {"AppendData", "Write"} =>
                 LinesAfter(x) = Lines(x) \o Runs(ret'[x].arg)
            /\ ret'[x].op = "Data" => LinesAfter(x) = Runs(ret'[x].arg)
            /\ ret'[x].op = "AppendData" /\ ret'[x].arg = <<"a", NL, NL, "b">> =>
                 LinesAfter(x) = Lines(x) \o << <<"a">>, <<"b">> >>

\* no data entry is empty or holds a newline
C17_NoEmptyEntry ==
    \A x \in Objs : \A i \in 1..Len(Lines(x)) :
        /\ Lines(x)[i] # <<>>
        /\ \A k \in 1..Len(Lines(x)[i]) : Lines(x)[i][k] # NL

\* C17: AppendData and Write append to the data entries the maximal
\* newline-free runs of their argument, in order, and never an empty entry
\* (AppendData("a\n\nb") appends a and b); Data leaves those of its
\* argument only.
C17_SplitsOnNewlines ==
    /\ []C17_NoEmptyEntry
    /\ [][C17_Step]_vars

\* AppendData("a\n\nb") has returned on an event that held the line hello
C17_Witness ==
    \E x \in Objs :
        /\ ret[x].op = "AppendData"
        /\ Lines(x) = <<Hello, <<"a">>, <<"b">>>>

\* what can be seen of Event object x: its fields and its rendering
View(x) ==
    [id |-> obj[x].id, event |-> obj[x].event, retry |-> obj[x].retry,
     lines |-> Lines(x), string |-> Wire(arrays, obj[x])]

\* the same after the step
ViewAfter(x) ==
    [id |-> obj'[x].id, event |-> obj'[x].event, retry |-> obj'[x].retry,
     lines |-> LinesAfter(x), string |-> Wire(arrays', obj'[x])]

\* C18: y = x.Clone() gives y the id, type, retry and data entries of x and
\* leaves x as it was, and no later call on one of the two events changes
\* the fields or the rendering of the other.
C18_CloneIndependent ==
    [][\A x, y \in Objs :
          x # y /\ CallOn(x) =>
              IF ret'[x].op = "Clone"
              THEN ViewAfter(y) = View(x) /\ ViewAfter(x) = View(x)
              ELSE ViewAfter(y) = View(y)]_vars

\* the clone still has the entries it was made with, after a Data on the
\* original that wrote new entries over the truncated slice
C18_Witness ==
    /\ ret["k"].op = "cloned" /\ ret["e"].op = "Data"
    /\ Lines("k") # <<>> /\ Lines("e") # <<>>
    /\ Lines("k") # Lines("e")
    /\ Cap(arrays, obj["e"].data) >= Len(Lines("k")) + Len(Lines("e"))

\* the rendering of a queued or received copy that was not read yet
Unread(item) == item.done = 0 => Wire(arrays, item.ev) = item.want

\* C12: what a worker writes for a Send(ev) is the rendering ev had when
\* Send was called: the copy in the queue or in the worker's hands renders
\* to it whatever the owner has done to ev since, and once the worker has
\* read it the buffer it writes from holds those bytes.
C12_PrivateClone ==
    \A c \in Clients :
        /\ \A i \in 1..Len(events[c]) : Unread(events[c][i])
        /\ wpc[c] \in {"copy", "flush"} =>
             /\ Unread(wev[c])
             /\ wev[c].done >= 1 => wev[c].ev.buf = wev[c].want

\* one Broadcast has handed the event to every client, the owner has set
\* the event anew since, and each worker is writing the bytes of before
C12_Witness ==
    \A c \in Clients :
        /\ wpc[c] \in {"copy", "flush"} /\ wev[c].done >= 1
        /\ wev[c].want # Wire(arrays, obj[Arg])
        /\ Len(wev[c].want) > 1
        /\ c \in DOMAIN clients
        /\ \A d \in Clients : wev[d].want = wev[c].want

\* C13: once the worker of an accepted connection has terminated, its
\* handler removes the client from the registry and returns.
C13_HandlerReturns ==
    \A c \in Clients :
        wpc[c] = "exited" ~> (hpc[c] = "returned" /\ c \notin DOMAIN clients)

\* C13: a client is in the registry from its handler's Register until its
\* worker has terminated.
C13_RegisteredWhileAlive ==
    \A c \in Clients :
        hpc[c] = "Wait" /\ wpc[c] # "exited" => c \in DOMAIN clients

\* where the worker of c stands, as its exit path, flag and counter tell it
C19_OnePath ==
    \A c \in Clients :
        /\ exitPath[c] \in {"none", "sentinel", "disconnect"}
        /\ exitPath[c] = "none" <=> ~WorkerLeft(c)
        /\ exitPath[c] = "sentinel" => chanClosed[c] /\ events[c] = <<>>
        /\ exitPath[c] = "disconnect" => gone[c]
        /\ closed[c] <=> WorkerLeft(c)
        /\ waiter[c] \in {0, 1}
        /\ waiter[c] = 0 <=> wpc[c] = "exited"

\* what a step may do once the worker has left its loop
C19_Terminal ==
    \A c \in Clients :
        /\ closed[c] => closed'[c]
        /\ exitPath[c] # "none" => exitPath'[c] = exitPath[c]
        /\ waiter'[c] <= waiter[c]
        /\ WorkerLeft(c) => wire'[c] = wire[c] /\ WorkerLeft(c)'
        /\ wpc[c] = "exited" => wpc'[c] = "exited"

\* C19: the worker leaves its loop by the closed channel or by the
\* disconnect and by nothing else, the wait counter is 1 until the worker
\* has returned and 0 from then on, closed is true from the moment the
\* worker leaves and stays true, and nothing is written to the connection
\* after it.
C19_TerminatesOnce ==
    /\ []C19_OnePath
    /\ [][C19_Terminal]_vars

\* the worker has returned on the disconnect, after it wrote an event, and
\* the channel has been closed by a Shutdown as well
C19_Witness ==
    \E c \in Clients :
        /\ wpc[c] = "exited" /\ exitPath[c] = "disconnect"
        /\ chanClosed[c]
        /\ wire[c] # <<>>

\* who holds what: iterating goroutines hold the read lock, a writer in its
\* body is alone with the registry
C20_Exclusion ==
    /\ \A p \in Procs : InRange(p, "Broadcast") \/ InRange(p, "Publish") => p \in lockR
    /\ \A p \in Procs : pc[p] \in {"SRange", "SWait"} => lockR = {} /\ wmutex = p

\* a step that changes the client map or a topic set is taken with no
\* goroutine iterating
C20_WriteAlone ==
    clients' # clients => lockR = {} /\ wmutex # NoProc

\* C20: while a Broadcast or Publish iterates the registry no Register,
\* Subscribe, Unsubscribe, Remove or Stream.Shutdown changes the client
\* map or a topic set; several Broadcasts and Publishes iterate together.
C20_ReadersWriter ==
    /\ []C20_Exclusion
    /\ [][C20_WriteAlone]_vars

\* a Broadcast and a Publish are inside their loops at once, on a registry
\* that holds a client
C20_Witness ==
    /\ lockR = Procs
    /\ \E p, q \in Procs : fr[p].op = "Broadcast" /\ fr[q].op = "Publish"
    /\ clients # <<>>


\* goroutine p has panicked inside a call of op
Panicked(p, op) == pc[p] = "panicked" /\ fr[p].op = op

\* C21: as long as Client.Shutdown was called once at most (no call of it
\* found the channel closed), no Send reaches the channel send with the
\* channel closed, where it panics.
C21_SendNeverPanics ==
    (\A q \in Procs : ~Panicked(q, "Shutdown")) =>
        \A p \in Procs : ~Panicked(p, "Send")

\* C22: every Send that has begun returns, and the Broadcast that made it
\* gives the read lock back, also when the client's peer disconnects.
C22_SendReturns ==
    \A p \in Procs :
        /\ InSend(p) ~> ~InSend(p)
        /\ p \in lockR ~> p \notin lockR

\* C23: with one direct Shutdown per client at most, Stream.Shutdown never
\* closes the channel of a client whose channel is closed already (where
\* close panics).
C23_NoDoubleClose ==
    \A p \in Procs : ~Panicked(p, "StreamShutdown")

\* the Write calls and the Flush of the event enqueued as number n are all
\* on the connection of c
Delivered(c, n) ==
    /\ \A k \in 1..Chunks : \E i \in 1..Len(wire[c]) :
           wire[c][i] = [seq |-> n, k |-> k]
    /\ \E i \in 1..Len(wire[c]) : wire[c][i] = [seq |-> n, k |-> 0]

\* C24: when the worker leaves on the closed channel, every event a Send
\* has enqueued has been written whole and flushed; none is left in the
\* channel or in the worker's hands.
C24_DrainsBeforeStop ==
    \A c \in Clients :
        exitPath[c] = "sentinel" =>
            /\ events[c] = <<>>
            /\ \A n \in 1..nEnq[c] : Delivered(c, n)

\* the worker has left on the closed channel, two events were enqueued
\* before, and the peer never disconnected
C24_Witness ==
    \E c \in Clients :
        /\ exitPath[c] = "sentinel"
        /\ nEnq[c] >= 2
        /\ ~gone[c]

\* C25: the bytes the worker writes for a Send(ev) are the bytes reading ev
\* itself would have returned when Send was called, also when ev was filled
\* with WriteRaw.
C25_RawDelivered ==
    \A c \in Clients :
        wpc[c] \in {"copy", "flush"} /\ wev[c].done >= 1 =>
            wev[c].ev.buf = wev[c].read
=============================================================================
